---- MODULE Spec2Model ----
(***************************************************************************)
(* LELU: the URL extraction pipeline of main.go and of its second variant  *)
(* (src/unnamed/part_000).                                                 *)
(*                                                                         *)
(* A Go string is a sequence of atoms.  An atom is a run of characters     *)
(* that net/url treats alike: "https" and the host names are runs of       *)
(* scheme characters, ":" "/" "?" "#" are the delimiters, "%zz" is a       *)
(* malformed percent escape, "%23" is the valid escape of '#', "target="   *)
(* and "&quot;_blank&quot;" are runs of sub-delimiters and letters (legal  *)
(* in a host and in a path, illegal in a scheme), and the last three are   *)
(* the quote, the quote-comma and the line feed, which the output stage   *)
(* alone writes and which never reach net/url.                             *)
(***************************************************************************)
EXTENDS Integers, Sequences, FiniteSets, TLC

VARIABLES
    variant,    \* which main package runs: "main.go" or "part_000"
    pc,         \* the statement of main that runs next
    listErr,    \* whether listTSVFiles returned an error
    nFiles,     \* len(tsvFiles)
    read,       \* the files handed to extractURLsFromFile so far, as found on disk
    allURLs,    \* main's allURLs
    dedupArg,   \* the argument of the last removeDuplicatesFromSlice call
    cleanArg,   \* the argument of the last cleanURLs call
    cleaned,    \* how the last cleanURLs call ended
    outFile,    \* extracted_urls.txt on disk
    oldOut,     \* extracted_urls.txt as it was when the process started
    saveCalls,  \* the number of saveURLsToFile calls
    saveErr,    \* the error the last saveURLsToFile call returned
    again,      \* a second removeDuplicatesFromSlice over the first one's result
    lines,      \* the lines a scanner reads back from extracted_urls.txt
    inOpen,     \* the positions in tsvFiles of the input files held open
    outOpen     \* whether a handle on extracted_urls.txt is held open

vars == <<variant, pc, listErr, nFiles, read, allURLs, dedupArg, cleanArg, cleaned,
          outFile, oldOut, saveCalls, saveErr, again, lines, inOpen, outOpen>>

\* the open file handles of the process
handles == <<inOpen, outOpen>>

----------------------------------------------------------------------------
(* Bounds of the model.                                                    *)

MaxPieces == 4
MaxSeq == 2
MaxSlice == 4
MaxFiles == 2
MaxURLs == 2

----------------------------------------------------------------------------
(* package strings                                                         *)

HasPrefix(s, p) ==
    /\ Len(s) >= Len(p)
    /\ SubSeq(s, 1, Len(p)) = p

HasSuffix(s, p) ==
    /\ Len(s) >= Len(p)
    /\ SubSeq(s, Len(s) - Len(p) + 1, Len(s)) = p

TrimSuffix(s, p) ==
    IF HasSuffix(s, p) THEN SubSeq(s, 1, Len(s) - Len(p)) ELSE s

\* strings.Index for a one-atom needle, 0 when absent
Index(s, a) ==
    IF \E i \in 1..Len(s) : s[i] = a
    THEN CHOOSE i \in 1..Len(s) : s[i] = a /\ \A j \in 1..(i - 1) : s[j] # a
    ELSE 0

LastIndex(s, a) ==
    IF \E i \in 1..Len(s) : s[i] = a
    THEN CHOOSE i \in 1..Len(s) : s[i] = a /\ \A j \in (i + 1)..Len(s) : s[j] # a
    ELSE 0

Count(s, a) == Cardinality({i \in 1..Len(s) : s[i] = a})

Contains(s, a) == \E i \in 1..Len(s) : s[i] = a

\* strings.Cut(s, a): s around the first a
CutBefore(s, a) == IF Contains(s, a) THEN SubSeq(s, 1, Index(s, a) - 1) ELSE s

CutAfter(s, a) == IF Contains(s, a) THEN SubSeq(s, Index(s, a) + 1, Len(s)) ELSE <<>>

----------------------------------------------------------------------------
(* package net/url, as called by the program                               *)

\* atoms made of scheme characters only (letters, digits, '.'), starting with a letter
SchemeAtoms == {"https", "documentcloud.org", "s3.documentcloud.org",
                "www.documentcloud.org", "beta.documentcloud.org",
                "evil.example.com"}

\* atoms net/url refuses in a host: '#' must be escaped there, an escape
\* is legal there only for a non-ASCII byte, and a malformed escape is legal nowhere
BadHostAtoms == {"#", "%zz", "%23"}

\* atoms holding a malformed percent escape
BadEscapeAtoms == {"%zz"}

NoURL == [err |-> TRUE, Scheme |-> <<>>, Opaque |-> <<>>, Host |-> <<>>,
          Path |-> <<>>, ForceQuery |-> FALSE, RawQuery |-> <<>>,
          Fragment |-> <<>>, OmitHost |-> FALSE]

\* getScheme: the length of the scheme, 0 when rawURL has none, -1 for the
\* error "missing protocol scheme" (a colon first)
RECURSIVE schemeScan(_, _)
schemeScan(rawURL, i) ==
    IF i > Len(rawURL) THEN 0
    ELSE IF rawURL[i] \in SchemeAtoms THEN schemeScan(rawURL, i + 1)
    ELSE IF rawURL[i] = ":" THEN (IF i = 1 THEN -1 ELSE i - 1)
    ELSE 0

schemeAt(rawURL, n) ==
    IF n = -1 THEN [err |-> TRUE, scheme |-> <<>>, rest |-> <<>>]
    ELSE IF n = 0 THEN [err |-> FALSE, scheme |-> <<>>, rest |-> rawURL]
    ELSE [err |-> FALSE, scheme |-> SubSeq(rawURL, 1, n),
          rest |-> SubSeq(rawURL, n + 2, Len(rawURL))]

getScheme(rawURL) == schemeAt(rawURL, schemeScan(rawURL, 1))

\* validOptionalPort on what follows the last colon: digits only, and the
\* alphabet holds no atom of digits, so only the empty port is valid
validOptionalPort(port) == port = <<>>

\* unescape(s, mode) fails on a malformed escape; in a host it fails also on a
\* character that must be escaped and on an escape of an ASCII byte
unescapeFails(s, inHost) ==
    \E i \in 1..Len(s) :
        \/ s[i] \in BadEscapeAtoms
        \/ inHost /\ s[i] \in BadHostAtoms

\* parseAuthority / parseHost: no userinfo and no bracket is in the alphabet
parseHostFails(authority) ==
    \/ /\ Contains(authority, ":")
       /\ ~validOptionalPort(SubSeq(authority, LastIndex(authority, ":") + 1,
                                    Len(authority)))
    \/ unescapeFails(authority, TRUE)

\* parse: the query is split off rest, "?" alone sets ForceQuery
splitQuery(rest) ==
    IF HasSuffix(rest, <<"?">>) /\ Count(rest, "?") = 1
    THEN [ForceQuery |-> TRUE, rest |-> SubSeq(rest, 1, Len(rest) - 1),
          RawQuery |-> <<>>]
    ELSE [ForceQuery |-> FALSE, rest |-> CutBefore(rest, "?"),
          RawQuery |-> CutAfter(rest, "?")]

\* parse: whether rest opens with an authority
hasAuthority(scheme, rest, viaRequest) ==
    /\ \/ scheme # <<>>
       \/ ~viaRequest /\ ~HasPrefix(rest, <<"/", "/", "/">>)
    /\ HasPrefix(rest, <<"/", "/">>)

\* parse: the authority after the two slashes, and the path that follows it
authorityOf(rest) == CutBefore(SubSeq(rest, 3, Len(rest)), "/")

pathAfterAuthority(rest) ==
    IF Contains(SubSeq(rest, 3, Len(rest)), "/")
    THEN SubSeq(rest, Index(SubSeq(rest, 3, Len(rest)), "/") + 2, Len(rest))
    ELSE <<>>

\* parse: url.setPath and the return.  Path holds the path as written; its
\* escaped form is computed by escape
setPath(scheme, q, host, path, omitHost) ==
    IF unescapeFails(path, FALSE) THEN NoURL
    ELSE [NoURL EXCEPT !.err = FALSE, !.Scheme = scheme, !.Host = host,
                       !.Path = path, !.ForceQuery = q.ForceQuery,
                       !.RawQuery = q.RawQuery, !.OmitHost = omitHost]

\* parse, from the test of the leading slash on
parseRest(scheme, q, viaRequest) ==
    IF ~HasPrefix(q.rest, <<"/">>) /\ scheme # <<>>
    THEN [NoURL EXCEPT !.err = FALSE, !.Scheme = scheme, !.Opaque = q.rest,
                       !.ForceQuery = q.ForceQuery, !.RawQuery = q.RawQuery]
    ELSE IF ~HasPrefix(q.rest, <<"/">>) /\ viaRequest THEN NoURL
    ELSE IF ~HasPrefix(q.rest, <<"/">>) /\ Contains(CutBefore(q.rest, "/"), ":")
    THEN NoURL
    ELSE IF hasAuthority(scheme, q.rest, viaRequest)
    THEN IF parseHostFails(authorityOf(q.rest)) THEN NoURL
         ELSE setPath(scheme, q, authorityOf(q.rest),
                      pathAfterAuthority(q.rest), FALSE)
    ELSE setPath(scheme, q, <<>>, q.rest,
                 scheme # <<>> /\ HasPrefix(q.rest, <<"/">>))

parseScheme(gs, viaRequest) ==
    IF gs.err THEN NoURL
    ELSE parseRest(gs.scheme, splitQuery(gs.rest), viaRequest)

\* func parse(rawURL string, viaRequest bool)
parseURL(rawURL, viaRequest) ==
    IF rawURL = <<>> /\ viaRequest THEN NoURL
    ELSE parseScheme(getScheme(rawURL), viaRequest)

\* url.ParseRequestURI: no fragment is split off
url_ParseRequestURI(rawURL) == parseURL(rawURL, TRUE)

\* url.Parse, after the fragment is cut off: setFragment unescapes it
setFragment(u, frag) ==
    IF u.err THEN NoURL
    ELSE IF frag = <<>> THEN u
    ELSE IF unescapeFails(frag, FALSE) THEN NoURL
    ELSE [u EXCEPT !.Fragment = frag]

\* url.Parse: the fragment is cut off first and unescaped last
url_Parse(rawURL) ==
    setFragment(parseURL(CutBefore(rawURL, "#"), FALSE), CutAfter(rawURL, "#"))

\* (*URL).Hostname: the host without a valid port
url_Hostname(u) ==
    IF Contains(u.Host, ":")
       /\ validOptionalPort(SubSeq(u.Host, LastIndex(u.Host, ":") + 1, Len(u.Host)))
    THEN SubSeq(u.Host, 1, LastIndex(u.Host, ":") - 1)
    ELSE u.Host

\* escape(s, encodePath) and escape(s, encodeFragment): '#' is written as %23
RECURSIVE escape(_)
escape(s) ==
    IF s = <<>> THEN <<>>
    ELSE <<IF Head(s) = "#" THEN "%23" ELSE Head(s)>> \o escape(Tail(s))

\* (*URL).String
url_String(u) ==
    LET scheme == IF u.Scheme # <<>> THEN u.Scheme \o <<":">> ELSE <<>>
        slashes == IF (u.Scheme # <<>> \/ u.Host # <<>>)
                      /\ ~(u.OmitHost /\ u.Host = <<>>)
                      /\ (u.Host # <<>> \/ u.Path # <<>>)
                   THEN <<"/", "/">> ELSE <<>>
        path == escape(u.Path)
        lead == IF path # <<>> /\ Head(path) # "/" /\ u.Host # <<>>
                THEN <<"/">> ELSE <<>>
        body == IF u.Opaque # <<>> THEN u.Opaque
                ELSE slashes \o u.Host \o lead \o path
        query == IF u.ForceQuery \/ u.RawQuery # <<>>
                 THEN <<"?">> \o u.RawQuery ELSE <<>>
        frag == IF u.Fragment # <<>> THEN <<"#">> \o escape(u.Fragment) ELSE <<>>
    IN  scheme \o body \o query \o frag

\* url_String is called on the result of url.ParseRequestURI alone (main.go:38),
\* whose path is empty or rooted, so the "./" guard of a relative path with a
\* colon in its first segment never applies.

----------------------------------------------------------------------------
(* The program's functions.                                                *)

Variants == {"main.go", "part_000"}

\* main.go strips the suffix in cleanURLs; part_000 does not, and quotes instead
Strips(v) == v = "main.go"

Quotes(v) == v = "part_000"

validDomains == << <<"s3.documentcloud.org">>, <<"documentcloud.org">>,
                   <<"www.documentcloud.org">>, <<"beta.documentcloud.org">> >>

\* the literal target=&quot;_blank&quot;
Suffix == <<"target=", "&quot;_blank&quot;">>

\* the loop body of removeDuplicatesFromSlice, st = [check, newReturnSlice]
dedupStep_unmarked(st, content) ==
    IF content \notin st.check
    THEN [st EXCEPT !.newReturnSlice = Append(@, content)]
    ELSE st

dedupStep_toggled(st, content) ==
    IF content \notin st.check
    THEN [check |-> st.check \cup {content},
          newReturnSlice |-> Append(st.newReturnSlice, content)]
    ELSE [st EXCEPT !.check = @ \ {content}]

dedupStep(st, content) ==
    IF content \notin st.check
    THEN [check |-> st.check \cup {content},
          newReturnSlice |-> Append(st.newReturnSlice, content)]
    ELSE st

RECURSIVE dedupLoop(_, _, _)
dedupLoop(slice, i, st) ==
    IF i > Len(slice) THEN st.newReturnSlice
    ELSE dedupLoop(slice, i + 1, dedupStep(st, slice[i]))

removeDuplicatesFromSlice(slice) ==
    dedupLoop(slice, 1, [check |-> {}, newReturnSlice |-> <<>>])

isUrlValid(uri) == ~url_ParseRequestURI(uri).err

\* log.Fatalln on a parse error, the hostname otherwise
hostNameOf_skipping(content) ==
    IF content.err THEN [fatal |-> FALSE, hostName |-> <<>>]
    ELSE [fatal |-> FALSE, hostName |-> url_Hostname(content)]

hostNameOf(content) ==
    IF content.err THEN [fatal |-> TRUE, hostName |-> <<>>]
    ELSE [fatal |-> FALSE, hostName |-> url_Hostname(content)]

getHostNameFromURL(uri) == hostNameOf(url_Parse(uri))

\* the inner loop of cleanURLs over validDomains
isValid_suffixMatch(hostName) ==
    \E i \in 1..Len(validDomains) : HasSuffix(hostName, validDomains[i])

isValid_skipFirst(hostName) ==
    \E i \in 2..Len(validDomains) : hostName = validDomains[i]

isValid(hostName) ==
    \E i \in 1..Len(validDomains) : hostName = validDomains[i]

\* the loop body of cleanURLs once the hostname is known: keep or skip the
\* entry, or be gone in log.Fatalln
keepOrSkip(host, content) ==
    IF host.fatal THEN [fatal |-> TRUE, keep |-> FALSE, value |-> <<>>]
    ELSE [fatal |-> FALSE, keep |-> isValid(host.hostName), value |-> content]

\* the loop body of cleanURLs for one entry
cleanEntry_stripFirst(content, strip) ==
    IF ~isUrlValid(content)
    THEN [fatal |-> FALSE, keep |-> FALSE, value |-> <<>>]
    ELSE keepOrSkip(getHostNameFromURL(IF strip THEN TrimSuffix(content, Suffix)
                                       ELSE content),
                    IF strip THEN TrimSuffix(content, Suffix) ELSE content)

cleanEntry(content, strip) ==
    IF ~isUrlValid(content)
    THEN [fatal |-> FALSE, keep |-> FALSE, value |-> <<>>]
    ELSE keepOrSkip(getHostNameFromURL(content),
                    IF strip THEN TrimSuffix(content, Suffix) ELSE content)

\* cleanURLs: how the call ends.  examined counts the entries the loop reached
RECURSIVE cleanLoop(_, _, _, _)
cleanNext(urls, strip, i, newReturnSlice, e) ==
    IF e.fatal THEN [fatal |-> TRUE, ret |-> <<>>, examined |-> i]
    ELSE cleanLoop(urls, strip, i + 1,
                   IF e.keep THEN Append(newReturnSlice, e.value)
                   ELSE newReturnSlice)

cleanLoop(urls, strip, i, newReturnSlice) ==
    IF i > Len(urls)
    THEN [fatal |-> FALSE, ret |-> newReturnSlice, examined |-> Len(urls)]
    ELSE cleanNext(urls, strip, i, newReturnSlice, cleanEntry(urls[i], strip))

cleanURLs(urls, strip) == cleanLoop(urls, strip, 1, <<>>)

RECURSIVE appendQuotesToString(_)
appendQuotesToString(content) ==
    IF content = <<>> THEN <<>>
    ELSE << <<"\"">> \o Head(content) \o <<"\",">> >>
         \o appendQuotesToString(Tail(content))

\* the loop of extractURLsFromFile over the matches of the lines read
validated(parsedURL) ==
    IF parsedURL.err THEN <<>> ELSE <<url_String(parsedURL)>>

RECURSIVE scanMatches(_)
scanMatches(matches) ==
    IF matches = <<>> THEN <<>>
    ELSE validated(url_ParseRequestURI(Head(matches)))
         \o scanMatches(Tail(matches))

\* extractURLsFromFile.  A file is [fail, matches]: fail is "open" when
\* os.Open fails, "read" when the scanner ends on an error, "none" otherwise;
\* matches are the regular expression's matches in the lines the scanner
\* delivered, in order.
extractURLsFromFile_partial(file) ==
    IF file.fail = "open" THEN [err |-> TRUE, urls |-> <<>>]
    ELSE [err |-> FALSE, urls |-> scanMatches(file.matches)]

extractURLsFromFile(file) ==
    IF file.fail = "open" THEN [err |-> TRUE, urls |-> <<>>]
    ELSE IF file.fail = "read" THEN [err |-> TRUE, urls |-> <<>>]
    ELSE [err |-> FALSE, urls |-> scanMatches(file.matches)]

\* the bytes saveURLsToFile hands to its writer: each url and a line feed
RECURSIVE joinLines(_)
joinLines(urls) ==
    IF urls = <<>> THEN <<>>
    ELSE Head(urls) \o <<"\n">> \o joinLines(Tail(urls))

Absent == [exists |-> FALSE, data |-> <<>>]

\* saveURLsToFile under what the file system does: os.Create fails ("create",
\* the file is left as it was), a write or the flush fails after n atoms
\* reached the disk ("write"), or all succeed ("ok")
saveURLsToFile_appending(urls, file, outcome, n) ==
    IF outcome = "create" THEN [err |-> TRUE, file |-> file]
    ELSE IF outcome = "write"
    THEN [err |-> TRUE,
          file |-> [exists |-> TRUE, data |-> SubSeq(joinLines(urls), 1, n)]]
    ELSE [err |-> FALSE,
          file |-> [exists |-> TRUE, data |-> file.data \o joinLines(urls)]]

saveURLsToFile(urls, file, outcome, n) ==
    IF outcome = "create" THEN [err |-> TRUE, file |-> file]
    ELSE IF outcome = "write"
    THEN [err |-> TRUE,
          file |-> [exists |-> TRUE, data |-> SubSeq(joinLines(urls), 1, n)]]
    ELSE [err |-> FALSE,
          file |-> [exists |-> TRUE, data |-> joinLines(urls)]]

\* bufio.Scanner with ScanLines over data: the text before each line feed,
\* and an unterminated non-empty last line (no carriage return is in the
\* alphabet, so none is dropped)
RECURSIVE scanLines(_)
scanLines(data) ==
    IF data = <<>> THEN <<>>
    ELSE IF Index(data, "\n") = 0 THEN <<data>>
    ELSE <<CutBefore(data, "\n")>> \o scanLines(CutAfter(data, "\n"))

----------------------------------------------------------------------------
(* The inputs.                                                             *)

SeqsUpTo(S, n) == UNION {[1..k -> S] : k \in 0..n}

Scheme == <<"https", ":", "/", "/">>

\* the pieces the argument strings of cleanURLs are put together from
Pieces == {Scheme, <<"/">>, <<"?">>, <<"#">>, <<"%zz">>,
           <<"documentcloud.org">>, <<"evil.example.com">>, Suffix}

RECURSIVE Flatten(_)
Flatten(ps) == IF ps = <<>> THEN <<>> ELSE Head(ps) \o Flatten(Tail(ps))

Concats(n) == {Flatten(ps) : ps \in SeqsUpTo(Pieces, n)}

\* strings of every kind cleanURLs tells apart, for arguments of several entries
Sample == {Scheme \o <<"documentcloud.org", "/">>,
           Scheme \o <<"documentcloud.org", "/">> \o Suffix,
           Scheme \o <<"documentcloud.org">> \o Suffix,
           Scheme \o <<"s3.documentcloud.org", "/">>,
           Scheme \o <<"www.documentcloud.org", "/">>,
           Scheme \o <<"beta.documentcloud.org", "/">>,
           Scheme \o <<"evil.example.com", "/">>,
           Scheme \o <<"documentcloud.org", "/", "%zz">>,
           Scheme \o <<"documentcloud.org", "?", "#", "%zz">>}

CleanInputs == {<<s>> : s \in Concats(MaxPieces)} \cup SeqsUpTo(Sample, MaxSeq)

\* what the regular expression http[s]?://[^\s"]+ matches in the input files:
\* the scheme, then one atom or more, none of them white space or a quote
Candidates == {Scheme \o <<"documentcloud.org", "/">>,
               Scheme \o <<"documentcloud.org", "/">> \o Suffix,
               Scheme \o <<"evil.example.com", "/", "#">>,
               Scheme \o <<"documentcloud.org", "/", "%zz">>,
               Scheme \o <<"documentcloud.org", "?", "#", "%zz">>}

\* the files of at most n matches; nothing is read of a file that does not open
Files(n) ==
    {[fail |-> "open", matches |-> <<>>]}
    \cup {[fail |-> f, matches |-> m] : f \in {"none", "read"},
                                        m \in SeqsUpTo(Candidates, n)}

RECURSIVE TotalMatches(_)
TotalMatches(files) ==
    IF files = <<>> THEN 0
    ELSE Len(Head(files).matches) + TotalMatches(Tail(files))

\* an output file left by an earlier run
OldFile == [exists |-> TRUE,
            data |-> Scheme \o <<"evil.example.com", "/", "\n">>]

\* how many atoms of data are on disk when a write fails: half of them
Torn(data) == {Len(data) \div 2}

\* the strings removeDuplicatesFromSlice is called on
SliceStrings == {<<>>, Scheme \o <<"documentcloud.org">>,
                 Scheme \o <<"evil.example.com">>}

\* the strings saveURLsToFile is called on: none holds a line feed
SaveStrings == {<<>>, Scheme \o <<"documentcloud.org", "/">>,
                Scheme \o <<"evil.example.com", "/">>,
                <<"\"">> \o Scheme \o <<"documentcloud.org", "/", "\",">>}

----------------------------------------------------------------------------
(* main, statement by statement.                                           *)

NotCleaned == [fatal |-> FALSE, ret |-> <<>>, examined |-> 0]

Start(at, olds) ==
    /\ variant \in Variants
    /\ pc = at
    /\ listErr = FALSE
    /\ nFiles = 0
    /\ read = <<>>
    /\ dedupArg = <<>>
    /\ cleanArg = <<>>
    /\ cleaned = NotCleaned
    /\ oldOut \in olds
    /\ outFile = oldOut
    /\ saveCalls = 0
    /\ saveErr = FALSE
    /\ again = <<>>
    /\ lines = <<>>
    /\ inOpen = {}
    /\ outOpen = FALSE

Init ==
    /\ Start("list", {Absent, OldFile})
    /\ allURLs = <<>>

\* where main goes once listTSVFiles returned n files and err: into
\* log.Fatalf, out by the return for no file, or on to the loop over the files
afterList_unchecked(err, n) ==
    IF err THEN "fatal" ELSE IF n = 0 THEN "dedup" ELSE "extract"

afterList(err, n) ==
    IF err THEN "fatal" ELSE IF n = 0 THEN "done" ELSE "extract"

\* tsvFiles, err := listTSVFiles(), and the two exits that follow it
ListTSVFiles ==
    /\ pc = "list"
    /\ \E n \in 0..MaxFiles, err \in BOOLEAN :
        /\ nFiles' = n
        /\ listErr' = err
        /\ pc' = afterList(err, n)
    /\ UNCHANGED handles
    /\ UNCHANGED <<variant, read, allURLs, dedupArg, cleanArg, cleaned,
                   outFile, oldOut, saveCalls, saveErr, again, lines>>

\* one round of the loop over tsvFiles; the handle extractURLsFromFile opens
\* is released before the call returns
ExtractFile ==
    /\ pc = "extract"
    /\ \E file \in Files(MaxURLs - TotalMatches(read)) :
        LET r == extractURLsFromFile(file)
        IN  /\ read' = Append(read, file)
            /\ allURLs' = IF r.err THEN allURLs ELSE allURLs \o r.urls
            /\ pc' = IF Len(read) + 1 = nFiles THEN "dedup" ELSE "extract"
    /\ UNCHANGED handles
    /\ UNCHANGED <<variant, listErr, nFiles, dedupArg, cleanArg, cleaned,
                   outFile, oldOut, saveCalls, saveErr, again, lines>>

\* allURLs = removeDuplicatesFromSlice(allURLs)
Dedup ==
    /\ pc = "dedup"
    /\ dedupArg' = allURLs
    /\ allURLs' = removeDuplicatesFromSlice(allURLs)
    /\ pc' = "clean"
    /\ UNCHANGED handles
    /\ UNCHANGED <<variant, listErr, nFiles, read, cleanArg, cleaned,
                   outFile, oldOut, saveCalls, saveErr, again, lines>>

\* allURLs = cleanURLs(allURLs), or the exit of log.Fatalln inside it
Clean ==
    /\ pc = "clean"
    /\ LET r == cleanURLs(allURLs, Strips(variant))
       IN  /\ cleanArg' = allURLs
           /\ cleaned' = r
           /\ allURLs' = IF r.fatal THEN allURLs ELSE r.ret
           /\ pc' = IF r.fatal THEN "fatal"
                    ELSE IF Quotes(variant) THEN "quote" ELSE "save"
    /\ UNCHANGED handles
    /\ UNCHANGED <<variant, listErr, nFiles, read, dedupArg,
                   outFile, oldOut, saveCalls, saveErr, again, lines>>

\* allURLs = appendQuotesToString(allURLs), in part_000 alone
Quote ==
    /\ pc = "quote"
    /\ allURLs' = appendQuotesToString(allURLs)
    /\ pc' = "save"
    /\ UNCHANGED handles
    /\ UNCHANGED <<variant, listErr, nFiles, read, dedupArg, cleanArg, cleaned,
                   outFile, oldOut, saveCalls, saveErr, again, lines>>

\* err = saveURLsToFile(allURLs, outputFile), logged either way; the handle
\* saveURLsToFile opens is released before the call returns
Save ==
    /\ pc = "save"
    /\ \E outcome \in {"ok", "create", "write"} :
       \E n \in (IF outcome = "write" THEN Torn(joinLines(allURLs)) ELSE {0}) :
        LET r == saveURLsToFile(allURLs, outFile, outcome, n)
        IN  /\ outFile' = r.file
            /\ saveErr' = r.err
    /\ saveCalls' = saveCalls + 1
    /\ pc' = "done"
    /\ UNCHANGED handles
    /\ UNCHANGED <<variant, listErr, nFiles, read, allURLs, dedupArg, cleanArg,
                   cleaned, oldOut, again, lines>>

Next == ListTSVFiles \/ ExtractFile \/ Dedup \/ Clean \/ Quote \/ Save

Spec == Init /\ [][Next]_vars

----------------------------------------------------------------------------
(* The functions called on their own.                                      *)

\* removeDuplicatesFromSlice on any slice, and once more on what it returned
InitDedup ==
    /\ Start("dedup", {Absent})
    /\ allURLs \in SeqsUpTo(SliceStrings, MaxSlice)

DedupAgain ==
    /\ pc = "clean"
    /\ again' = removeDuplicatesFromSlice(allURLs)
    /\ pc' = "again"
    /\ UNCHANGED handles
    /\ UNCHANGED <<variant, listErr, nFiles, read, allURLs, dedupArg, cleanArg,
                   cleaned, outFile, oldOut, saveCalls, saveErr, lines>>

NextDedup == Dedup \/ DedupAgain

SpecDedup == InitDedup /\ [][NextDedup]_vars

\* cleanURLs on any slice
InitClean ==
    /\ Start("clean", {Absent})
    /\ allURLs \in CleanInputs

NextClean == Clean

SpecClean == InitClean /\ [][NextClean]_vars

\* saveURLsToFile on any slice, and the file read back
InitSave ==
    /\ Start("save", {Absent, OldFile})
    /\ allURLs \in SeqsUpTo(SaveStrings, MaxSeq)

ReadBack ==
    /\ pc = "done"
    /\ outFile.exists
    /\ lines' = scanLines(outFile.data)
    /\ pc' = "readBack"
    /\ UNCHANGED handles
    /\ UNCHANGED <<variant, listErr, nFiles, read, allURLs, dedupArg, cleanArg,
                   cleaned, outFile, oldOut, saveCalls, saveErr, again>>

NextSave == Save \/ ReadBack

SpecSave == InitSave /\ [][NextSave]_vars

----------------------------------------------------------------------------
(* main with the file handles in view: extractURLsFromFile and             *)
(* saveURLsToFile stop between the open and the rest of the call.          *)

\* where the loop over tsvFiles goes after its round on file number i
afterRound(i, n) == IF i = n THEN "dedup" ELSE "extract"

\* defer file.Close(): the handles left open when extractURLsFromFile returns
\* err from the scan of the file held by handle h
deferredClose_onSuccess(open, h, err) == IF err THEN open ELSE open \ {h}

deferredClose(open, h, err) == open \ {h}

\* file, err := os.Open(fileName), and the return where it fails
OpenInput ==
    /\ pc = "extract"
    /\ \E ok \in BOOLEAN :
        IF ok
        THEN /\ inOpen' = inOpen \cup {Len(read) + 1}
             /\ pc' = "scan"
             /\ UNCHANGED <<read, allURLs>>
        ELSE LET file == [fail |-> "open", matches |-> <<>>]
                 r == extractURLsFromFile(file)
             IN  /\ read' = Append(read, file)
                 /\ allURLs' = IF r.err THEN allURLs ELSE allURLs \o r.urls
                 /\ pc' = afterRound(Len(read) + 1, nFiles)
                 /\ UNCHANGED inOpen
    /\ UNCHANGED outOpen
    /\ UNCHANGED <<variant, listErr, nFiles, dedupArg, cleanArg, cleaned,
                   outFile, oldOut, saveCalls, saveErr, again, lines>>

\* the scan of the open file, the return that ends it and the deferred Close
ScanInput ==
    /\ pc = "scan"
    /\ \E file \in Files(MaxURLs - TotalMatches(read)) :
        /\ file.fail # "open"
        /\ LET r == extractURLsFromFile(file)
           IN  /\ read' = Append(read, file)
               /\ allURLs' = IF r.err THEN allURLs ELSE allURLs \o r.urls
               /\ inOpen' = deferredClose(inOpen, Len(read) + 1, r.err)
    /\ pc' = afterRound(Len(read) + 1, nFiles)
    /\ UNCHANGED outOpen
    /\ UNCHANGED <<variant, listErr, nFiles, dedupArg, cleanArg, cleaned,
                   outFile, oldOut, saveCalls, saveErr, again, lines>>

\* file, err := os.Create(outputFile), and the return where it fails
CreateOutput ==
    /\ pc = "save"
    /\ \E ok \in BOOLEAN :
        IF ok
        THEN /\ outOpen' = TRUE
             /\ outFile' = [exists |-> TRUE, data |-> <<>>]
             /\ pc' = "write"
             /\ UNCHANGED saveErr
        ELSE LET r == saveURLsToFile(allURLs, outFile, "create", 0)
             IN  /\ outFile' = r.file
                 /\ saveErr' = r.err
                 /\ pc' = "done"
                 /\ UNCHANGED outOpen
    /\ saveCalls' = saveCalls + 1
    /\ UNCHANGED inOpen
    /\ UNCHANGED <<variant, listErr, nFiles, read, allURLs, dedupArg, cleanArg,
                   cleaned, oldOut, again, lines>>

\* the writes, the flush, the return and the deferred Close
WriteOutput ==
    /\ pc = "write"
    /\ \E outcome \in {"ok", "write"} :
       \E n \in (IF outcome = "write" THEN Torn(joinLines(allURLs)) ELSE {0}) :
        LET r == saveURLsToFile(allURLs, outFile, outcome, n)
        IN  /\ outFile' = r.file
            /\ saveErr' = r.err
    /\ outOpen' = FALSE
    /\ pc' = "done"
    /\ UNCHANGED inOpen
    /\ UNCHANGED <<variant, listErr, nFiles, read, allURLs, dedupArg, cleanArg,
                   cleaned, oldOut, saveCalls, again, lines>>

InitFiles ==
    /\ Start("list", {Absent})
    /\ allURLs = <<>>

NextFiles ==
    \/ ListTSVFiles \/ OpenInput \/ ScanInput \/ Dedup \/ Clean \/ Quote
    \/ CreateOutput \/ WriteOutput

SpecFiles == InitFiles /\ [][NextFiles]_vars

----------------------------------------------------------------------------
(* What the claims speak of.                                               *)

NoDuplicates(s) == \A i, j \in 1..Len(s) : i # j => s[i] # s[j]

Strings(s) == {s[i] : i \in 1..Len(s)}

\* the positions of s that hold a string for the first time
FirstPositions(s) == {i \in 1..Len(s) : \A j \in 1..(i - 1) : s[j] # s[i]}

\* the four hostnames of the allow-list
AllowList == {<<"s3.documentcloud.org">>, <<"documentcloud.org">>,
              <<"www.documentcloud.org">>, <<"beta.documentcloud.org">>}

\* s parses as an absolute URI and its hostname is on the allow-list
Qualifies(s) ==
    /\ ~url_ParseRequestURI(s).err
    /\ ~url_Parse(s).err
    /\ url_Hostname(url_Parse(s)) \in AllowList

\* s passes isUrlValid and fails the parse of getHostNameFromURL
ReparseFails(s) == ~url_ParseRequestURI(s).err /\ url_Parse(s).err

RECURSIVE StripAll(_)
StripAll(s) ==
    IF s = <<>> THEN <<>>
    ELSE <<TrimSuffix(Head(s), Suffix)>> \o StripAll(Tail(s))

\* the URLs of the files that were read without an error, in file order
RECURSIVE Collected(_)
Collected(files) ==
    IF files = <<>> THEN <<>>
    ELSE (IF Head(files).fail = "none" THEN scanMatches(Head(files).matches)
          ELSE <<>>)
         \o Collected(Tail(files))

DedupReturned == pc \in {"clean", "again"}

CleanReturned == pc \in {"quote", "save", "done"} /\ ~cleaned.fatal

\* main got past the listing with files to read
Listed == pc # "list" /\ ~listErr /\ nFiles > 0

----------------------------------------------------------------------------
(* The claims.                                                             *)

\* C1: what removeDuplicatesFromSlice returns holds no string twice, holds
\* exactly the strings of its argument, and holds them in the order of their
\* first occurrences in the argument: its k-th string is the string at the
\* k-th first-occurrence position.
C1_DedupKeepsFirstOccurrences ==
    DedupReturned =>
        /\ NoDuplicates(allURLs)
        /\ Strings(allURLs) = Strings(dedupArg)
        /\ Len(allURLs) = Cardinality(FirstPositions(dedupArg))
        /\ \A k \in 1..Len(allURLs) :
            \E i \in FirstPositions(dedupArg) :
                /\ dedupArg[i] = allURLs[k]
                /\ Cardinality({j \in FirstPositions(dedupArg) : j <= i}) = k

\* a call on four strings, the third a repeat of the first with another between
C1_Witness ==
    /\ DedupReturned
    /\ Len(dedupArg) = 4
    /\ dedupArg[1] = dedupArg[3]
    /\ dedupArg[1] # dedupArg[2]
    /\ Len(allURLs) = 2

\* C2: in both variants, every string cleanURLs returns parses, and its
\* hostname is one of the four allow-listed hostnames.
C2_FilterSound ==
    CleanReturned =>
        \A i \in 1..Len(cleaned.ret) :
            /\ ~url_Parse(cleaned.ret[i]).err
            /\ url_Hostname(url_Parse(cleaned.ret[i])) \in AllowList

\* the stripping variant returned a string it had stripped the suffix from
C2_Witness ==
    /\ CleanReturned
    /\ Strips(variant)
    /\ Len(cleaned.ret) = 1
    /\ Len(cleanArg) = 1
    /\ cleaned.ret[1] # cleanArg[1]

\* C3: what main hands to saveURLsToFile holds no string twice.
C3_OutputDeduplicated ==
    saveCalls > 0 => NoDuplicates(allURLs)

\* C4 as claimed: cleanURLs returns exactly the qualifying entries of its
\* argument, unchanged and in order.
C4_ReturnsQualifyingEntries ==
    CleanReturned => cleaned.ret = SelectSeq(cleanArg, Qualifies)

\* C4 as amended: whenever cleanURLs returns, it returns one string for each
\* qualifying entry of its argument, in order: the entry itself in the
\* variant that does not strip, the entry without its trailing suffix in the
\* variant that strips.
C4_ReturnsQualifyingEntriesStripped ==
    CleanReturned =>
        cleaned.ret = IF Strips(variant)
                      THEN StripAll(SelectSeq(cleanArg, Qualifies))
                      ELSE SelectSeq(cleanArg, Qualifies)

\* the stripping variant kept one of two entries, and stripped it
C4_Witness ==
    /\ CleanReturned
    /\ Strips(variant)
    /\ Len(cleanArg) = 2
    /\ Len(cleaned.ret) = 1
    /\ cleaned.ret[1] \notin Strings(cleanArg)

\* C5: when listTSVFiles returns no file and no error, main returns at once:
\* no file is read, saveURLsToFile is not called, extracted_urls.txt is as it
\* was, and the process is not in a fatal exit.
C5_NoInputNoOutput ==
    (pc # "list" /\ ~listErr /\ nFiles = 0) =>
        /\ pc = "done"
        /\ read = <<>>
        /\ saveCalls = 0
        /\ outFile = oldOut
        /\ ~ENABLED Next

C5_Witness ==
    /\ pc = "done"
    /\ ~listErr
    /\ nFiles = 0
    /\ oldOut = OldFile

\* C6: once cleanURLs was entered, the process is in the fatal exit exactly
\* when some entry passes isUrlValid and fails the parse of
\* getHostNameFromURL; the loop then stopped at the first such entry,
\* saveURLsToFile was not called, extracted_urls.txt is as it was and nothing
\* runs any more.  Entries that fail isUrlValid, and matches that fail to
\* parse during extraction, never end the process.
C6_FatalOnReparse ==
    /\ (Listed /\ pc \notin {"extract", "dedup", "clean"}) =>
        LET bad == {i \in 1..Len(cleanArg) : ReparseFails(cleanArg[i])}
        IN  IF bad = {}
            THEN pc # "fatal" /\ ~cleaned.fatal
                 /\ cleaned.examined = Len(cleanArg)
            ELSE /\ pc = "fatal"
                 /\ cleaned.fatal
                 /\ cleaned.examined \in bad
                 /\ \A i \in bad : cleaned.examined <= i
                 /\ saveCalls = 0
                 /\ outFile = oldOut
                 /\ ~ENABLED Next
    /\ (Listed /\ pc \in {"extract", "dedup", "clean"}) =>
           cleaned = NotCleaned /\ saveCalls = 0

\* the fatal exit with an entry left unexamined and an old output file
C6_Witness ==
    /\ pc = "fatal"
    /\ cleaned.fatal
    /\ cleaned.examined < Len(cleanArg)
    /\ oldOut = OldFile
    /\ outFile = OldFile

\* C7 as claimed: a run in which extractURLsFromFile failed for a file ends
\* with the single output write.
C7_FailedFileStillWritten ==
    (pc \in {"done", "fatal"} /\ Listed
        /\ \E i \in 1..Len(read) : read[i].fail # "none")
    => saveCalls = 1

\* C7 as amended: a file for which extractURLsFromFile fails adds nothing to
\* allURLs, main goes on with the next file, what reaches
\* removeDuplicatesFromSlice is the URLs of the other files in file order,
\* and the run proceeds to deduplication and filtering, and to the single
\* output write unless cleanURLs ends the process in log.Fatalln.
C7_FailedFileSkipped ==
    Listed =>
        /\ Len(read) = (IF pc = "extract" THEN Len(read) ELSE nFiles)
        /\ pc = "extract" => Len(read) < nFiles
        /\ saveCalls = (IF pc = "done" THEN 1 ELSE 0)
        /\ pc = "fatal" => cleaned.fatal
        /\ Collected(read) = (IF pc \in {"extract", "dedup"} THEN allURLs
                              ELSE dedupArg)
        /\ pc \notin {"extract", "dedup", "clean"} =>
               cleanArg = removeDuplicatesFromSlice(dedupArg)

\* a read error after a match that parses, another file read well, and the write
C7_Witness ==
    /\ pc = "done"
    /\ saveCalls = 1
    /\ Len(read) = 2
    /\ read[1].fail = "read"
    /\ scanMatches(read[1].matches) # <<>>
    /\ read[2].fail = "none"
    /\ dedupArg = scanMatches(read[2].matches)
    /\ dedupArg # <<>>

\* C8: after a saveURLsToFile that returned no error, a scanner reads back
\* from the file exactly the strings handed over, one a line and in order,
\* whatever the file held before.
C8_SaveRoundTrip ==
    (pc = "readBack" /\ ~saveErr) => lines = allURLs

C8_Witness ==
    /\ pc = "readBack"
    /\ ~saveErr
    /\ oldOut = OldFile
    /\ Len(allURLs) = 2
    /\ lines = allURLs

\* C9: removeDuplicatesFromSlice applied to its own result returns that result.
C9_DedupIdempotent ==
    pc = "again" => again = allURLs

\* the first call removed a duplicate
C9_Witness ==
    /\ pc = "again"
    /\ Len(allURLs) < Len(dedupArg)
    /\ Len(allURLs) >= 2
    /\ again = allURLs

\* C10: in the stripping variant an entry is kept exactly when the original,
\* unstripped string qualifies (it is valid and its own hostname is on the
\* allow-list), whether or not the stripped string would, and what is kept
\* of it is the string without the trailing suffix.
C10_HostOfUnstripped ==
    (CleanReturned /\ Strips(variant)) =>
        /\ Len(cleaned.ret) =
               Cardinality({i \in 1..Len(cleanArg) : Qualifies(cleanArg[i])})
        /\ \A k \in 1..Len(cleaned.ret) :
            \E i \in 1..Len(cleanArg) :
                /\ Qualifies(cleanArg[i])
                /\ Cardinality({j \in 1..i : Qualifies(cleanArg[j])}) = k
                /\ cleaned.ret[k] = TrimSuffix(cleanArg[i], Suffix)

\* an entry was dropped whose stripped string qualifies, next to one kept
C10_Witness ==
    /\ CleanReturned
    /\ Strips(variant)
    /\ Len(cleanArg) = 2
    /\ ~Qualifies(cleanArg[1])
    /\ Qualifies(TrimSuffix(cleanArg[1], Suffix))
    /\ HasSuffix(cleanArg[2], Suffix)
    /\ cleaned.ret = <<TrimSuffix(cleanArg[2], Suffix)>>

\* C11: at most one input file handle is open in any state; the handle that
\* is open belongs to the file after the ones extractURLsFromFile has
\* returned from, so every earlier file was closed before this one was
\* opened; no input handle outlives the call that opened it, on the return
\* after a read error as on the others; and the output file is open only
\* once every listed file has been through the loop and is closed.
C11_OneInputHandle ==
    /\ Cardinality(inOpen) <= 1
    /\ inOpen \subseteq {Len(read) + 1}
    /\ pc # "scan" => inOpen = {}
    /\ pc = "scan" => inOpen = {Len(read) + 1} /\ Len(read) < nFiles
    /\ (outOpen \/ saveCalls > 0) => inOpen = {} /\ Len(read) = nFiles
    /\ outOpen => pc = "write"

\* the output file is open after two input files were opened and closed, the
\* first of them on the return that follows a read error
C11_Witness ==
    /\ outOpen
    /\ nFiles = 2
    /\ Len(read) = 2
    /\ read[1].fail = "read"
    /\ read[2].fail = "none"
    /\ inOpen = {}

====
